---- MODULE Spec2Model ----
(***************************************************************************)
(* Model of the ONVIF voice assistant (rtsp-to-wyoming):                   *)
(*   - AudioBuffer, the utterance segmenter, and the part of               *)
(*     ONVIFVoiceAssistant._process_audio_stream that feeds it             *)
(*     (src/onvif-voice-assistant/rootfs/app/app.py);                      *)
(*   - ONVIFVoiceAssistant._process_command, the command matcher;          *)
(*   - ONVIFVoiceAssistant._execute_actions, the action dispatcher;        *)
(*   - WyomingClient.send_audio, the transcription client, and the socket  *)
(*     client of src/app.py with its _receive_message;                     *)
(*   - ONVIFVoiceAssistant.start and stop, the driver.                     *)
(* One specification per component: Spec (segmenter and frame loop),       *)
(* MatchSpec and WordMatchSpec (command matcher), ActionSpec (action       *)
(* dispatcher), SendSpec and TimeoutSpec (transcription client),           *)
(* ReceiveSpec (_receive_message), DriverSpec, DriverFairSpec and          *)
(* DriverLiveSpec (driver).                                                *)
(***************************************************************************)
EXTENDS Integers, Sequences, FiniteSets, TLC

VARIABLES
    \* ---- AudioBuffer (app.py 135-145) and the frame loop's configuration
    buffer,            \* self.buffer: the frames kept, in arrival order
    is_speaking,       \* self.is_speaking
    silence_frames,    \* self.silence_frames
    recorded_frames,   \* self.recorded_frames
    vad_enabled,       \* config.get("vad_enabled", True)
    complete_audio,    \* the frame loop's local: what the last frame produced
    \* ---- history of the frame loop, kept for stating the properties
    fed,               \* frames given to add_frame since the last call made when idle
    emits,             \* utterances returned by the calls recorded in fed
    did_reset,         \* the last step called AudioBuffer.reset()
    last_frame,        \* the frame of the last step, NoFrame before the first
    \* ---- _transcribe_and_process / _process_command
    transcript,        \* the text send_audio returned
    commands,          \* config["commands"]: the rules, in configured order
    executed,          \* indices of the rules given to _execute_actions, in order
    raised,            \* _process_command left by an exception
    match_pc,          \* "ready" before the transcript is processed, then "done"
    matcher,           \* which _process_command: "addon" (the add-on's app.py)
                       \* or "legacy" (src/app.py)
    \* ---- _execute_actions (one call, for the rule that matched)
    command,           \* the matched rule: its shape and its action configs
    env,               \* the token variables set in os.environ
    act_pc,            \* "ready" before the call, "loop" in its for loop, "done"
    attempted,         \* how each _execute_action call ended, in call order
    escaped            \* an exception left _execute_actions

actVars == <<command, env, act_pc, attempted, escaped>>

matchVars == <<transcript, commands, executed, raised, match_pc, matcher, actVars>>

VARIABLES
    \* ---- WyomingClient.send_audio (one call)
    client,            \* which WyomingClient: "addon" (the add-on's app.py,
                       \* wyoming's AsyncClient) or "legacy" (src/app.py, a socket)
    socket,            \* legacy self.socket: "None", "created" or "connected"
    audio_len,         \* len(audio_data)
    sample_rate,       \* the call's sample_rate
    sample_width,      \* the call's sample_width
    channels,          \* the call's channels
    send_pc,           \* where the call is: "connect", "start", "chunks",
                       \* "await" or "returned"
    conn_open,         \* the AsyncClient connection is open
    wire,              \* the events written on the connection, in order
    offset,            \* i of the chunk loop
    reads,             \* read_event calls made (counted up to MaxReads)
    waited,            \* whole seconds since start_time
    result,            \* what send_audio returned
    write_failed,      \* a write_event (or the connect) raised
    timeout,           \* the add-on's timeout, in 1/TimeoutUnits s (0: not set)
    \* ---- history of the calls, kept for stating the properties
    last_read,         \* how the last read_event / _receive_message ended
    unread,            \* the message the server sent that the call did not read
    calls,             \* send_audio calls made on this client so far
    prev_failed,       \* the call before this one ended in a transport failure
    fresh              \* this call has tried to open a new connection

sendVars == <<client, socket, audio_len, sample_rate, sample_width, channels, send_pc, conn_open,
              wire, offset, reads, waited, result, write_failed, timeout,
              last_read, unread, calls, prev_failed, fresh>>

VARIABLES
    \* ---- WyomingClient._receive_message of src/app.py (one call)
    arriving,          \* the bytes the transport has yet to deliver
    cuts,              \* how it delivers them: the sizes of the pieces, in order
    recv_pc,           \* where the call is: "size", "data" or "returned"
    declared_size,     \* size: the declared length
    data,              \* the bytes of the message read so far
    recv_result,       \* what _receive_message returned
    \* ---- kept for stating the properties
    sent_message,      \* the message the peer gave to _send_message
    cut_short          \* the peer closed before it had sent all of it

recvVars == <<arriving, cuts, recv_pc, declared_size, data, recv_result, sent_message, cut_short>>

VARIABLES
    \* ---- ONVIFVoiceAssistant.start and _process_audio_stream (the driver)
    running,           \* self.running
    driver_pc,         \* where start() is: "idle" (not called), "loop" (at
                       \* while self.running), "streaming" (in the demux
                       \* loop), "transcribing" (awaiting
                       \* _transcribe_and_process), "backoff" (in
                       \* asyncio.sleep(5)) or "stopped" (start() returned)
    pending,           \* full-size chunks of the current packet not yet handled
    in_flight,         \* send_audio calls started and not yet returned
    \* ---- history of the driver, kept for stating the properties
    stop_called,       \* stop() has been called
    stopped_at,        \* driver_pc when stop() was called, "never" before
    failures,          \* exceptions in a row with no packet between (up to MaxFailures)
    slept,             \* seconds slept since the last session ended
    open_tick,         \* flips each time av.open is called
    unchecked,         \* chunks given to the segmenter since self.running was
                       \* last examined
    stop_seen,         \* an examination of self.running has found it false
    container_open,    \* the container of the latest av.open is open
    leaked,            \* a container of an earlier av.open was never closed
    open_called        \* av.open has been called since start()

driverVars == <<running, driver_pc, pending, in_flight, stop_called, stopped_at,
                failures, slept, open_tick, unchecked, stop_seen, container_open, leaked, open_called>>

segVars == <<buffer, is_speaking, silence_frames, recorded_frames, vad_enabled,
             complete_audio, fed, emits, did_reset, last_frame>>

----------------------------------------------------------------------------
(* Optional[bytes]: add_frame returns None or the utterance's bytes.       *)
None == [some |-> FALSE, val |-> <<>>]

Some(v) == [some |-> TRUE, val |-> v]

----------------------------------------------------------------------------
(* Bounds and scaled parameters.                                           *)

\* AudioBuffer.max_silence_frames is 30 and max_recording_frames 1000 in the
\* source; the model runs the same comparisons on scaled-down values.
max_silence_frames == 2

max_recording_frames == 4

\* Frames fed to add_frame within one utterance window before the model stops
\* extending it.
MaxFed == 7

\* Frames accumulated per hand-off when vad_enabled is false: the least n with
\* n * 0.03 >= chunk_duration (67 for the default chunk_duration of 2).
chunk_frames == 3

\* self.min_energy_threshold
min_energy_threshold == 500

----------------------------------------------------------------------------
(* Frames.  A frame is the PCM samples of one 30 ms slice (scaled to two   *)
(* 16-bit samples) together with what webrtcvad answers for it: "speech",  *)
(* "nonspeech", or "error" when is_speech raises.                          *)
Frames ==
    { [vad |-> "speech",    samples |-> <<500, -500>>],
      [vad |-> "speech",    samples |-> <<499, -499>>],
      [vad |-> "nonspeech", samples |-> <<501, 500>>],
      [vad |-> "nonspeech", samples |-> <<0, 0>>],
      [vad |-> "error",     samples |-> <<708, 0>>],
      [vad |-> "error",     samples |-> <<707, 0>>] }

\* What last_frame holds before any frame has arrived.
NoFrame == [vad |-> "none", samples |-> <<>>]

\* Bytes of a run of 16-bit samples.
ByteLen(samples) == 2 * Len(samples)

\* The frame loop's frame_size: every frame it passes on has this many bytes.
frame_size == ByteLen((CHOOSE f \in Frames : TRUE).samples)

RECURSIVE sum_squares(_)
sum_squares(samples) ==
    IF samples = <<>> THEN 0
    ELSE Head(samples) * Head(samples) + sum_squares(Tail(samples))

\* _calculate_energy(frame) < threshold, for threshold >= 0:
\* sqrt(sum_squares / n) < t  iff  sum_squares < t * t * n; an empty frame has
\* energy 0.
energy_below(frame, threshold) ==
    IF frame.samples = <<>> THEN 0 < threshold
    ELSE sum_squares(frame.samples) < threshold * threshold * Len(frame.samples)

\* Mutant of vad_is_speech: a failing detector counts as non-speech.
vad_is_speech_fail_closed(frame) == frame.vad = "speech"

\* try: is_speech = self.vad.is_speech(...)  except: is_speech = True
vad_is_speech(frame) == frame.vad \in {"speech", "error"}

\* Mutant of final_is_speech: no energy gate.
final_is_speech_no_gate(frame) == vad_is_speech(frame)

\* The energy gate: the classification add_frame acts on.
final_is_speech(frame) ==
    vad_is_speech(frame) /\ ~energy_below(frame, min_energy_threshold)

\* b"".join(self.buffer)
RECURSIVE join(_)
join(frames) ==
    IF frames = <<>> THEN <<>>
    ELSE Head(frames).samples \o join(Tail(frames))

\* Mutant of cap_reached: the cap is tested with > instead of >=.
cap_reached_late(n) == n > max_recording_frames

\* if self.recorded_frames >= self.max_recording_frames
cap_reached(n) == n >= max_recording_frames

\* Mutant of silence_done: the silence run is tested with > instead of >=.
silence_done_late(n) == n > max_silence_frames

\* if self.silence_frames >= self.max_silence_frames
silence_done(n) == n >= max_silence_frames

----------------------------------------------------------------------------
(* Mutant of reset: the buffer is not cleared.                             *)
reset_keeps_buffer ==
    /\ buffer' = buffer
    /\ is_speaking' = FALSE
    /\ silence_frames' = 0
    /\ recorded_frames' = 0
    /\ did_reset' = TRUE

(* AudioBuffer.reset                                                       *)
reset ==
    /\ buffer' = <<>>
    /\ is_speaking' = FALSE
    /\ silence_frames' = 0
    /\ recorded_frames' = 0
    /\ did_reset' = TRUE

\* Mutant of silence_after_speech: a speech frame leaves the silence run as
\* it was.
silence_after_speech_kept == silence_frames

\* self.silence_frames = 0 on a speech frame
silence_after_speech == 0

(* AudioBuffer.add_frame(frame); its return value goes to complete_audio.  *)
add_frame(frame) ==
    IF final_is_speech(frame)
    THEN LET recorded == (IF is_speaking THEN recorded_frames ELSE 0) + 1
             buf == Append(buffer, frame)
         IN  IF cap_reached(recorded)
             THEN /\ complete_audio' = Some(join(buf))
                  /\ reset
             ELSE /\ complete_audio' = None
                  /\ is_speaking' = TRUE
                  /\ silence_frames' = silence_after_speech
                  /\ buffer' = buf
                  /\ recorded_frames' = recorded
                  /\ did_reset' = FALSE
    ELSE IF is_speaking
    THEN LET buf == Append(buffer, frame)
         IN  IF silence_done(silence_frames + 1)
             THEN /\ complete_audio' = Some(join(buf))
                  /\ reset
             ELSE /\ complete_audio' = None
                  /\ silence_frames' = silence_frames + 1
                  /\ buffer' = buf
                  /\ did_reset' = FALSE
                  /\ UNCHANGED <<is_speaking, recorded_frames>>
    ELSE /\ complete_audio' = None
         /\ did_reset' = FALSE
         /\ UNCHANGED <<buffer, is_speaking, silence_frames, recorded_frames>>

(* _process_audio_stream, one full-size chunk with vad_enabled true.       *)
VadFrame(frame) ==
    /\ vad_enabled
    /\ is_speaking => Len(fed) < MaxFed
    /\ add_frame(frame)
    /\ fed' = IF is_speaking THEN Append(fed, frame) ELSE <<frame>>
    /\ emits' = (IF is_speaking THEN emits ELSE 0)
                + (IF complete_audio'.some THEN 1 ELSE 0)
    /\ last_frame' = frame
    /\ UNCHANGED vad_enabled

\* if buffer_duration >= chunk_target, with buffer_duration = len(buffer) * 0.03
chunk_full(buf) == Len(buf) >= chunk_frames

(* _process_audio_stream, one full-size chunk with vad_enabled false.      *)
NoVadFrame(frame) ==
    /\ ~vad_enabled
    /\ LET buf == Append(buffer, frame)
       IN  IF chunk_full(buf)
           THEN /\ complete_audio' = Some(join(buf))
                /\ reset
           ELSE /\ complete_audio' = None
                /\ buffer' = buf
                /\ did_reset' = FALSE
                /\ UNCHANGED <<is_speaking, silence_frames, recorded_frames>>
    /\ last_frame' = frame
    /\ UNCHANGED <<vad_enabled, fed, emits>>

(* AudioBuffer.__init__, before the first frame.                           *)
SegInit ==
    /\ buffer = <<>>
    /\ is_speaking = FALSE
    /\ silence_frames = 0
    /\ recorded_frames = 0
    /\ vad_enabled \in BOOLEAN
    /\ complete_audio = None
    /\ fed = <<>>
    /\ emits = 0
    /\ did_reset = FALSE
    /\ last_frame = NoFrame

----------------------------------------------------------------------------
(* Strings are sequences of one-character strings.                         *)

MaxTextLen == 5

MaxPatternLen == 3

MaxNormLen == 3

MaxRules == 2

\* All strings over alphabet of at most n characters.
Strings(alphabet, n) == UNION {[1..k -> alphabet] : k \in 0..n}

Whitespace == {" "}

\* The characters of rstrip('.,!?')
Punctuation == {".", ",", "!", "?"}

\* str.lower(), one character
lower_char(c) ==
    CASE c = "A" -> "a"
      [] c = "B" -> "b"
      [] OTHER -> c

\* str.lower()
lower(s) == [i \in 1..Len(s) |-> lower_char(s[i])]

\* str.lstrip(chars)
RECURSIVE lstrip(_, _)
lstrip(s, chars) ==
    IF s # <<>> /\ Head(s) \in chars THEN lstrip(Tail(s), chars) ELSE s

\* str.rstrip(chars)
RECURSIVE rstrip(_, _)
rstrip(s, chars) ==
    IF s # <<>> /\ s[Len(s)] \in chars
    THEN rstrip(SubSeq(s, 1, Len(s) - 1), chars)
    ELSE s

\* str.strip()
strip(s) == rstrip(lstrip(s, Whitespace), Whitespace)

\* Length of the longest prefix of s without whitespace.
RECURSIVE word_end(_)
word_end(s) ==
    IF s = <<>> \/ Head(s) \in Whitespace THEN 0 ELSE 1 + word_end(Tail(s))

\* str.split(): the maximal runs of non-whitespace characters, in order
RECURSIVE split(_)
split(s) ==
    LET t == lstrip(s, Whitespace)
        n == word_end(t)
    IN  IF t = <<>> THEN <<>>
        ELSE <<SubSeq(t, 1, n)>> \o split(SubSeq(t, n + 1, Len(t)))

\* word in text_words
contains(words, word) == \E i \in 1..Len(words) : words[i] = word

\* text_words.index(word): the position (from 0) of the first occurrence
index(words, word) ==
    (CHOOSE i \in 1..Len(words) :
        words[i] = word /\ \A j \in 1..(i - 1) : words[j] # word) - 1

\* indices == sorted(indices)
is_sorted(indices) ==
    \A i \in 1..(Len(indices) - 1) : indices[i] <= indices[i + 1]

\* text_clean = text.strip().rstrip('.,!?')
clean_text(text) == rstrip(strip(text), Punctuation)

\* pattern = command["pattern"].lower().strip()
clean_pattern(pattern) == strip(lower(pattern))

\* if text_clean == pattern
exact_match(text_clean, pattern) == text_clean = pattern

\* if all(word in text_words for word in pattern_words): 
\*     indices = [text_words.index(word) for word in pattern_words]
\*     if indices == sorted(indices)
partial_match(text_words, pattern_words) ==
    /\ \A k \in 1..Len(pattern_words) : contains(text_words, pattern_words[k])
    /\ is_sorted([k \in 1..Len(pattern_words) |->
                     index(text_words, pattern_words[k])])

\* One iteration of the loop of _process_command: does this rule fire?
rule_matches(text_clean, pattern_raw) ==
    LET pattern == clean_pattern(pattern_raw)
    IN  \/ exact_match(text_clean, pattern)
        \/ partial_match(split(text_clean), split(pattern))

\* What _process_command did: the rules executed and whether it raised.
Outcome(rules, exc) == [executed |-> rules, raised |-> exc]

RECURSIVE run_rules(_, _, _)

\* Mutant of after_match: no return after _execute_actions, the loop goes on.
after_match_continue(text_clean, rules, i) ==
    LET rest == run_rules(text_clean, rules, i + 1)
    IN  Outcome(<<i>> \o rest.executed, rest.raised)

\* await self._execute_actions(command); return
after_match(text_clean, rules, i) == Outcome(<<i>>, FALSE)

\* for command in commands, from the i-th on; command["pattern"] raises
\* KeyError on a rule without a pattern, which ends _process_command.
run_rules(text_clean, rules, i) ==
    IF i > Len(rules) THEN Outcome(<<>>, FALSE)
    ELSE IF ~rules[i].has_pattern THEN Outcome(<<>>, TRUE)
    ELSE IF rule_matches(text_clean, rules[i].pattern)
         THEN after_match(text_clean, rules, i)
         ELSE run_rules(text_clean, rules, i + 1)

\* _process_command(text)
process_command(text, rules) == run_rules(clean_text(text), rules, 1)

\* _transcribe_and_process, from the transcript on: text.strip().lower()
recognized(text) == lower(strip(text))

\* src/app.py: if pattern in text, for strings
is_substring(pattern, text) ==
    \E k \in 0..(Len(text) - Len(pattern)) :
        SubSeq(text, k + 1, k + Len(pattern)) = pattern

\* src/app.py: pattern = command["pattern"].lower(); if pattern in text
legacy_rule_matches(text, pattern_raw) == is_substring(lower(pattern_raw), text)

\* src/app.py: for command in commands, from the i-th on; the first rule
\* that matches is executed and the function returns; command["pattern"]
\* raises KeyError on a rule without a pattern.
RECURSIVE legacy_run_rules(_, _, _)
legacy_run_rules(text, rules, i) ==
    IF i > Len(rules) THEN Outcome(<<>>, FALSE)
    ELSE IF ~rules[i].has_pattern THEN Outcome(<<>>, TRUE)
    ELSE IF legacy_rule_matches(text, rules[i].pattern)
         THEN Outcome(<<i>>, FALSE)
         ELSE legacy_run_rules(text, rules, i + 1)

\* src/app.py: _process_command(text)
legacy_process_command(text, rules) == legacy_run_rules(text, rules, 1)

(* _transcribe_and_process once send_audio has returned a non-empty text.  *)
TranscribeAndProcess ==
    /\ match_pc = "ready"
    /\ LET out == IF matcher = "addon"
                  THEN process_command(recognized(transcript), commands)
                  ELSE legacy_process_command(recognized(transcript), commands)
       IN  /\ executed' = out.executed
           /\ raised' = out.raised
    /\ match_pc' = "done"
    /\ UNCHANGED <<transcript, commands, matcher, actVars>>

\* A rule of config["commands"]; has_pattern is FALSE when the "pattern" key
\* is missing.
Rule(pattern) == [has_pattern |-> TRUE, pattern |-> pattern]

NoPatternRule == [has_pattern |-> FALSE, pattern |-> <<>>]

\* Transcripts as send_audio returns them: stripped and not empty.
Transcripts(alphabet, n) ==
    {t \in Strings(alphabet, n) : t # <<>> /\ strip(t) = t}

\* Inputs: one rule over words of a's and b's; one rule with upper case and
\* punctuation; several rules, some without a pattern.
WordInputs ==
    {<<t, <<Rule(p)>> >> : t \in Transcripts({"a", "b", " "}, MaxTextLen),
                           p \in Strings({"a", "b", " "}, MaxPatternLen)}

NormInputs ==
    {<<t, <<Rule(p)>> >> : t \in Transcripts({"a", "A", " ", "."}, MaxNormLen),
                           p \in Strings({"a", "A", " ", "."}, MaxNormLen)}

OrderRules ==
    {Rule(<<"a">>), Rule(<<"b">>), Rule(<<"a", " ", "b">>), NoPatternRule}

OrderInputs ==
    {<<t, r>> : t \in Transcripts({"a", "b", " "}, MaxPatternLen),
                r \in UNION {[1..n -> OrderRules] : n \in 1..MaxRules}}

MatchInputs == WordInputs \cup NormInputs \cup OrderInputs

\* Action configs in the longest actions list.
MaxActions == 2

\* An action config: a dict with or without the "action" key.
ActionConfig(name) == [has_action |-> TRUE, action |-> name]

NoActionName == [has_action |-> FALSE, action |-> <<>>]

\* "light.turn_on" and "turn_on" scaled down, and a config without a name.
ActionConfigs ==
    {ActionConfig(<<"l", ".", "t">>), ActionConfig(<<"t">>), NoActionName}

\* The shapes of a rule: "actions" holding a list (in actions), "actions"
\* holding one dict that is not in a list, the old "action" key (the dict,
\* or what the old keys give, in single), or neither key.
Commands ==
    {[shape |-> "actions", actions |-> c, single |-> NoActionName] :
        c \in UNION {[1..n -> ActionConfigs] : n \in 0..MaxActions}}
    \cup {[shape |-> sh, actions |-> <<>>, single |-> c] :
            sh \in {"actions_dict", "action"}, c \in ActionConfigs}
    \cup {[shape |-> "none", actions |-> <<>>, single |-> NoActionName]}

NoCommand == [shape |-> "none", actions |-> <<>>, single |-> NoActionName]

\* actions_list as _execute_actions builds it: the list itself, the one
\* dict put in a list, or the old keys made into one config; empty when the
\* rule has neither key and the function returns at once.
actions_list(rule) ==
    CASE rule.shape = "actions" -> rule.actions
      [] rule.shape \in {"actions_dict", "action"} -> <<rule.single>>
      [] OTHER -> <<>>

\* token = os.environ.get('SUPERVISOR_TOKEN'), else os.environ.get('HASSIO_TOKEN')
TokenNames == {"SUPERVISOR_TOKEN", "HASSIO_TOKEN"}

has_token(environ) == environ # {}

\* domain, service = action.split(".", 1) raises ValueError when the name
\* has no dot.
has_dot(name) == \E k \in 1..Len(name) : name[k] = "."

\* What requests.post may do: answer ok, answer with an error status, raise.
PostOutcomes == {"ok", "failed", "raises"}

\* How one _execute_action call ends: whether the request was made and the
\* exception raised inside the call, "none" when there is none.
Attempt(posted, exc) == [posted |-> posted, exc |-> exc]

\* The body of _execute_action(action_config), with what requests.post does.
execute_action(config, environ, post) ==
    IF ~has_token(environ) THEN Attempt(FALSE, "none")
    ELSE IF ~config.has_action THEN Attempt(FALSE, "AttributeError")
    ELSE IF ~has_dot(config.action) THEN Attempt(FALSE, "ValueError")
    ELSE IF post = "raises" THEN Attempt(TRUE, "RequestException")
    ELSE Attempt(TRUE, "none")

\* Mutant of caught: only the inner except ValueError is there.
caught_value_error_only(exc) == exc \in {"none", "ValueError"}

\* except ValueError around the split and except Exception around the body
\* of _execute_action: no exception leaves it.
caught(exc) == exc \in {"none", "ValueError", "AttributeError", "RequestException"}

(* _execute_actions(command), up to its for loop.                          *)
ExecuteActions ==
    /\ act_pc = "ready"
    /\ act_pc' = IF actions_list(command) = <<>> THEN "done" ELSE "loop"
    /\ UNCHANGED <<command, env, attempted, escaped>>
    /\ UNCHANGED <<transcript, commands, executed, raised, match_pc, matcher>>

(* One turn of the for loop: await self._execute_action(action_config).    *)
ExecuteAction(post) ==
    /\ act_pc = "loop"
    /\ LET idx == Len(attempted) + 1
           end == execute_action(actions_list(command)[idx], env, post)
       IN  /\ attempted' = Append(attempted, end)
           /\ escaped' = ~caught(end.exc)
           /\ act_pc' = IF ~caught(end.exc) \/ idx = Len(actions_list(command))
                        THEN "done" ELSE "loop"
    /\ UNCHANGED <<command, env>>
    /\ UNCHANGED <<transcript, commands, executed, raised, match_pc, matcher>>

ActIdle ==
    /\ command = NoCommand
    /\ env = {}
    /\ act_pc = "ready"
    /\ attempted = <<>>
    /\ escaped = FALSE

MatchIdle ==
    /\ ActIdle
    /\ transcript = <<>>
    /\ commands = <<>>
    /\ executed = <<>>
    /\ raised = FALSE
    /\ match_pc = "ready"
    /\ matcher = "addon"

----------------------------------------------------------------------------
(* WyomingClient.send_audio.  The utterance's bytes are not stored: a run  *)
(* of bytes audio_data[lo:hi] is the pair of its offsets.                  *)

\* Chunks in the longest utterance a call is given.
MaxAudioChunks == 3

\* chunk_size = 1024 * sample_width * channels
SamplesPerChunk == 1024

chunk_size(width, chans) == SamplesPerChunk * width * chans

\* Mutant of slice: the end of the slice is not clipped to the buffer's end.
slice_unclipped(len, i, size) == [lo |-> i, hi |-> i + size]

\* audio_data[i:i + chunk_size]
slice(len, i, size) ==
    [lo |-> IF i < len THEN i ELSE len,
     hi |-> IF i + size < len THEN i + size ELSE len]

\* AudioStart(rate, width, channels).event()
AudioStart(rate, width, chans) ==
    [type |-> "audio-start", rate |-> rate, width |-> width, channels |-> chans]

\* AudioChunk(rate, width, channels, audio).event()
AudioChunk(rate, width, chans, audio) ==
    [type |-> "audio-chunk", rate |-> rate, width |-> width, channels |-> chans,
     audio |-> audio]

\* AudioStop().event()
AudioStop == [type |-> "audio-stop"]

\* Mutant of all_chunks_sent: the stop may be written before the loop is over.
all_chunks_sent_early(i, len) == TRUE

\* for i in range(0, len(audio_data), chunk_size): the loop is over
all_chunks_sent(i, len) == i >= len

\* timeout = max(30.0, min(60.0, audio_duration * 0.5)) with
\* audio_duration = len(audio_data) / (16000 * 2), in units of 1/64000 s
TimeoutUnits == 64000

MinTimeout == 30

MaxTimeout == 60

response_timeout(len) ==
    LET half == len  \* audio_duration * 0.5 = len / 64000 seconds
        capped == IF half < MaxTimeout * TimeoutUnits THEN half
                  ELSE MaxTimeout * TimeoutUnits
    IN  IF capped > MinTimeout * TimeoutUnits THEN capped
        ELSE MinTimeout * TimeoutUnits

\* if asyncio.get_event_loop().time() - start_time > timeout
timed_out(seconds, len) == seconds * TimeoutUnits > response_timeout(len)

\* asyncio.wait_for(client.read_event(), timeout=5.0)
ReadTimeout == 5

\* Whole seconds an event can take to arrive without wait_for expiring.
EventDelays == 0..(ReadTimeout - 1)

\* No message of the server is left unread.
NoMessage == [kind |-> "none", text |-> <<>>, at |-> 0]

\* What the server may send once the call has stopped reading: nothing, or a
\* transcript that arrives after the given number of seconds since the
\* stream stop.
LateMessages(after) ==
    {NoMessage, [kind |-> "transcript", text |-> <<"a">>, at |-> after + 1]}

\* read_event calls are counted up to MaxReads.
MaxReads == 3

count_read(n) == IF n < MaxReads THEN n + 1 ELSE n

\* The call returns: the async with block closes the connection.
Return(value) ==
    /\ send_pc' = "returned"
    /\ result' = value
    /\ conn_open' = FALSE

(* async with AsyncClient.from_uri(self.uri) as client                     *)
Connect ==
    /\ client = "addon"
    /\ send_pc = "connect"
    /\ send_pc' = "start"
    /\ conn_open' = TRUE
    /\ UNCHANGED <<client, socket, audio_len, sample_rate, sample_width, channels, wire, offset,
                   reads, waited, result, write_failed>>
    /\ fresh' = TRUE
    /\ UNCHANGED <<timeout, last_read, unread, calls, prev_failed>>

(* The connection cannot be made: except Exception, return None.           *)
ConnectFails ==
    /\ client = "addon"
    /\ send_pc = "connect"
    /\ Return(None)
    /\ write_failed' = TRUE
    /\ UNCHANGED <<client, socket, audio_len, sample_rate, sample_width, channels, wire, offset,
                   reads, waited>>
    /\ fresh' = TRUE
    /\ UNCHANGED <<timeout, last_read, unread, calls, prev_failed>>

(* await client.write_event(AudioStart(...).event())                       *)
WriteStart ==
    /\ client = "addon"
    /\ send_pc = "start"
    /\ wire' = Append(wire, AudioStart(sample_rate, sample_width, channels))
    /\ send_pc' = "chunks"
    /\ offset' = 0
    /\ UNCHANGED <<client, socket, audio_len, sample_rate, sample_width, channels, conn_open,
                   reads, waited, result, write_failed>>
    /\ UNCHANGED <<timeout, last_read, unread, calls, prev_failed, fresh>>

(* One turn of the chunk loop.                                             *)
WriteChunk ==
    /\ client = "addon"
    /\ send_pc = "chunks"
    /\ ~all_chunks_sent(offset, audio_len)
    /\ LET size == chunk_size(sample_width, channels)
       IN  /\ wire' = Append(wire, AudioChunk(sample_rate, sample_width, channels,
                                              slice(audio_len, offset, size)))
           /\ offset' = offset + size
    /\ UNCHANGED <<client, socket, audio_len, sample_rate, sample_width, channels, send_pc,
                   conn_open, reads, waited, result, write_failed>>
    /\ UNCHANGED <<timeout, last_read, unread, calls, prev_failed, fresh>>

(* await client.write_event(AudioStop().event()); start_time is taken.     *)
WriteStop ==
    /\ client = "addon"
    /\ send_pc = "chunks"
    /\ all_chunks_sent(offset, audio_len)
    /\ wire' = Append(wire, AudioStop)
    /\ send_pc' = "await"
    /\ waited' = 0
    /\ UNCHANGED <<client, socket, audio_len, sample_rate, sample_width, channels, conn_open,
                   offset, reads, result, write_failed>>
    /\ timeout' = response_timeout(audio_len)
    /\ UNCHANGED <<last_read, unread, calls, prev_failed, fresh>>

(* A write_event raises: except Exception, return None.                    *)
WriteFails ==
    /\ client = "addon"
    /\ send_pc \in {"start", "chunks"}
    /\ Return(None)
    /\ write_failed' = TRUE
    /\ UNCHANGED <<client, socket, audio_len, sample_rate, sample_width, channels, wire, offset,
                   reads, waited>>
    /\ UNCHANGED <<timeout, last_read, unread, calls, prev_failed, fresh>>

(* The loop's own deadline has passed: return None.                        *)
AwaitDeadline ==
    /\ client = "addon"
    /\ send_pc = "await"
    /\ timed_out(waited, audio_len)
    /\ Return(None)
    /\ UNCHANGED <<client, socket, audio_len, sample_rate, sample_width, channels, wire, offset,
                   reads, waited, write_failed>>
    /\ UNCHANGED <<timeout, last_read, unread, calls, prev_failed, fresh>>

(* read_event gives nothing within 5 s: asyncio.TimeoutError, return None. *)
(* late is what the server sends after that, if anything.                  *)
ReadTimesOut(late) ==
    /\ client = "addon"
    /\ send_pc = "await"
    /\ ~timed_out(waited, audio_len)
    /\ reads' = count_read(reads)
    /\ waited' = waited + ReadTimeout
    /\ Return(None)
    /\ UNCHANGED <<client, socket, audio_len, sample_rate, sample_width, channels, wire, offset,
                   write_failed>>
    /\ last_read' = "timeout"
    /\ unread' = late
    /\ UNCHANGED <<timeout, calls, prev_failed, fresh>>

(* read_event returns None, the connection was closed: break, return None. *)
ReadClosed(delay) ==
    /\ client = "addon"
    /\ send_pc = "await"
    /\ ~timed_out(waited, audio_len)
    /\ reads' = count_read(reads)
    /\ waited' = waited + delay
    /\ Return(None)
    /\ UNCHANGED <<client, socket, audio_len, sample_rate, sample_width, channels, wire, offset,
                   write_failed>>
    /\ last_read' = "closed"
    /\ UNCHANGED <<timeout, unread, calls, prev_failed, fresh>>

(* read_event returns a Transcript: return its stripped text, or None when *)
(* that is empty.                                                          *)
ReadTranscript(text, delay) ==
    /\ client = "addon"
    /\ send_pc = "await"
    /\ ~timed_out(waited, audio_len)
    /\ reads' = count_read(reads)
    /\ waited' = waited + delay
    /\ Return(IF strip(text) # <<>> THEN Some(strip(text)) ELSE None)
    /\ UNCHANGED <<client, socket, audio_len, sample_rate, sample_width, channels, wire, offset,
                   write_failed>>
    /\ last_read' = "transcript"
    /\ UNCHANGED <<timeout, unread, calls, prev_failed, fresh>>

(* read_event returns an event of another type: the loop goes on.          *)
ReadOther(delay) ==
    /\ client = "addon"
    /\ send_pc = "await"
    /\ ~timed_out(waited, audio_len)
    /\ reads' = count_read(reads)
    /\ waited' = waited + delay
    /\ UNCHANGED <<client, socket, audio_len, sample_rate, sample_width, channels, send_pc,
                   conn_open, wire, offset, result, write_failed>>
    /\ last_read' = "other"
    /\ UNCHANGED <<timeout, unread, calls, prev_failed, fresh>>

----------------------------------------------------------------------------
(* The legacy WyomingClient.send_audio of src/app.py: length-prefixed JSON *)
(* messages on a socket that is kept between calls.                        *)

\* chunk_size = 8192
LegacyChunkSize == 8192

\* {"type": "transcribe", "data": {"rate": ..., "width": ..., "channels": ...}}
Transcribe(rate, width, chans) ==
    [type |-> "transcribe",
     data |-> [rate |-> rate, width |-> width, channels |-> chans]]

\* _send_audio_chunk: {"type": "audio-chunk", "data": chunk.hex()}
LegacyChunk(audio) == [type |-> "audio-chunk", data |-> [hex_of |-> audio]]

\* {"type": "audio-stop"}
LegacyStop == [type |-> "audio-stop"]

\* return None, the socket left as it is
LegacyReturn(value) ==
    /\ send_pc' = "returned"
    /\ result' = value

(* if not self.socket: self.connect() succeeds                             *)
LegacyConnect ==
    /\ client = "legacy"
    /\ send_pc = "connect"
    /\ socket = "None"
    /\ socket' = "connected"
    /\ conn_open' = TRUE
    /\ send_pc' = "start"
    /\ UNCHANGED <<client, audio_len, sample_rate, sample_width, channels, wire,
                   offset, reads, waited, result, write_failed>>
    /\ fresh' = TRUE
    /\ UNCHANGED <<timeout, last_read, unread, calls, prev_failed>>

(* self.connect() fails: the socket object made stays in self.socket and   *)
(* send_audio returns None.                                                *)
LegacyConnectFails ==
    /\ client = "legacy"
    /\ send_pc = "connect"
    /\ socket = "None"
    /\ socket' = "created"
    /\ LegacyReturn(None)
    /\ write_failed' = TRUE
    /\ UNCHANGED <<client, audio_len, sample_rate, sample_width, channels, wire,
                   offset, reads, waited, conn_open>>
    /\ fresh' = TRUE
    /\ UNCHANGED <<timeout, last_read, unread, calls, prev_failed>>

(* self._send_message({"type": "transcribe", ...})                         *)
LegacySendTranscribe ==
    /\ client = "legacy"
    /\ send_pc = "start"
    /\ socket = "connected"
    /\ wire' = Append(wire, Transcribe(sample_rate, sample_width, channels))
    /\ send_pc' = "chunks"
    /\ offset' = 0
    /\ UNCHANGED <<client, socket, audio_len, sample_rate, sample_width, channels,
                   conn_open, reads, waited, result, write_failed>>
    /\ UNCHANGED <<timeout, last_read, unread, calls, prev_failed, fresh>>

(* One turn of the chunk loop: self._send_audio_chunk(chunk)               *)
LegacySendChunk ==
    /\ client = "legacy"
    /\ send_pc = "chunks"
    /\ ~all_chunks_sent(offset, audio_len)
    /\ wire' = Append(wire, LegacyChunk(slice(audio_len, offset, LegacyChunkSize)))
    /\ offset' = offset + LegacyChunkSize
    /\ UNCHANGED <<client, socket, audio_len, sample_rate, sample_width, channels,
                   send_pc, conn_open, reads, waited, result, write_failed>>
    /\ UNCHANGED <<timeout, last_read, unread, calls, prev_failed, fresh>>

(* self._send_message({"type": "audio-stop"})                              *)
LegacySendStop ==
    /\ client = "legacy"
    /\ send_pc = "chunks"
    /\ all_chunks_sent(offset, audio_len)
    /\ wire' = Append(wire, LegacyStop)
    /\ send_pc' = "await"
    /\ UNCHANGED <<client, socket, audio_len, sample_rate, sample_width, channels,
                   conn_open, offset, reads, waited, result, write_failed>>
    /\ UNCHANGED <<timeout, last_read, unread, calls, prev_failed, fresh>>

(* sendall raises: except Exception, self.disconnect(), return None.       *)
LegacySendFails ==
    /\ client = "legacy"
    /\ send_pc \in {"start", "chunks"}
    /\ LegacyReturn(None)
    /\ socket' = "None"
    /\ conn_open' = FALSE
    /\ write_failed' = TRUE
    /\ UNCHANGED <<client, audio_len, sample_rate, sample_width, channels, wire,
                   offset, reads, waited>>
    /\ UNCHANGED <<timeout, last_read, unread, calls, prev_failed, fresh>>

\* What _receive_message can hand back: None (closed, short or malformed
\* message), a transcript with its text, a message of another type, or JSON
\* that is no object, on which response.get raises.
LegacyResponses ==
    {[kind |-> "none", text |-> <<>>],
     [kind |-> "not_an_object", text |-> <<>>],
     [kind |-> "other", text |-> <<>>],
     [kind |-> "transcript", text |-> <<>>],
     [kind |-> "transcript", text |-> <<"a">>]}

(* response = self._receive_message(): the transcript's text, else None;   *)
(* when response.get raises: except Exception, self.disconnect(), None.    *)
(* late is what the server sends after a message of another type.          *)
LegacyReceive(response, late) ==
    /\ client = "legacy"
    /\ send_pc = "await"
    /\ reads' = count_read(reads)
    /\ LegacyReturn(IF response.kind = "transcript" THEN Some(response.text)
                    ELSE None)
    /\ IF response.kind = "not_an_object"
       THEN socket' = "None" /\ conn_open' = FALSE
       ELSE UNCHANGED <<socket, conn_open>>
    /\ UNCHANGED <<client, audio_len, sample_rate, sample_width, channels, wire,
                   offset, waited, write_failed>>
    /\ last_read' = response.kind
    /\ unread' = IF response.kind = "other" THEN late ELSE NoMessage
    /\ UNCHANGED <<timeout, calls, prev_failed, fresh>>

\* Texts a Transcript event can carry.
TranscriptTexts == {<<>>, <<" ">>, <<"a">>, <<" ", "a", " ">>}

\* The lengths of the utterances given to a call: around each multiple of the
\* chunk size, the empty utterance included.
AudioLens(size) ==
    {n \in {k * size + r : k \in 0..MaxAudioChunks, r \in {-1, 0, 1}} :
        n >= 0 /\ n <= MaxAudioChunks * size}

\* len(audio_data) of an utterance of the given number of seconds
utterance_bytes(seconds, rate, width, chans) == seconds * rate * width * chans

\* The lengths of the utterances a call is given: around the multiples of
\* the client's chunk size, and a 2-second utterance.
CallLens(which, rate, width, chans) ==
    AudioLens(IF which = "addon" THEN chunk_size(width, chans)
              ELSE LegacyChunkSize)
    \cup {utterance_bytes(2, rate, width, chans)}

\* send_audio calls made on one client before the model stops making more.
MaxCalls == 2

\* The call ended in a transport-level failure: the connect or a write
\* raised, the connection was closed before a result, or the incoming
\* message was short or malformed.
TransportFailure ==
    write_failed \/ last_read \in {"closed", "none", "not_an_object"}

(* The driver calls send_audio again, on the same WyomingClient, with the  *)
(* next utterance: self.socket is what the call before left.               *)
NextCall(len) ==
    /\ send_pc = "returned"
    /\ calls >= 1
    /\ calls < MaxCalls
    /\ calls' = calls + 1
    /\ prev_failed' = TransportFailure
    /\ audio_len' = len
    /\ send_pc' = "connect"
    /\ wire' = <<>>
    /\ offset' = 0
    /\ reads' = 0
    /\ waited' = 0
    /\ result' = None
    /\ write_failed' = FALSE
    /\ timeout' = 0
    /\ last_read' = "no_read"
    /\ unread' = NoMessage
    /\ fresh' = FALSE
    /\ UNCHANGED <<client, socket, sample_rate, sample_width, channels, conn_open>>

(* if not self.socket is false: the call goes on with the socket it has,   *)
(* without connecting.                                                     *)
LegacyReuse ==
    /\ client = "legacy"
    /\ send_pc = "connect"
    /\ socket # "None"
    /\ send_pc' = "start"
    /\ UNCHANGED <<client, socket, audio_len, sample_rate, sample_width, channels,
                   conn_open, wire, offset, reads, waited, result, write_failed,
                   timeout, last_read, unread, calls, prev_failed, fresh>>

SendIdle ==
    /\ client = "addon"
    /\ socket = "None"
    /\ audio_len = 0
    /\ sample_rate = 16000
    /\ sample_width = 2
    /\ channels = 1
    /\ send_pc = "returned"
    /\ conn_open = FALSE
    /\ wire = <<>>
    /\ offset = 0
    /\ reads = 0
    /\ waited = 0
    /\ result = None
    /\ write_failed = FALSE
    /\ timeout = 0
    /\ last_read = "no_read"
    /\ unread = NoMessage
    /\ calls = 0
    /\ prev_failed = FALSE
    /\ fresh = FALSE

(* send_audio(audio_data, sample_rate, sample_width, channels) is called.  *)
SendInit ==
    /\ client \in {"addon", "legacy"}
    /\ socket = "None"
    /\ sample_rate \in {8000, 16000}
    /\ sample_width = 2
    /\ channels \in IF client = "addon" THEN {1, 2} ELSE {1}
    /\ audio_len \in CallLens(client, sample_rate, sample_width, channels)
    /\ send_pc = "connect"
    /\ conn_open = FALSE
    /\ wire = <<>>
    /\ offset = 0
    /\ reads = 0
    /\ waited = 0
    /\ result = None
    /\ write_failed = FALSE
    /\ timeout = 0
    /\ last_read = "no_read"
    /\ unread = NoMessage
    /\ calls = 1
    /\ prev_failed = FALSE
    /\ fresh = FALSE

----------------------------------------------------------------------------
(* WyomingClient._receive_message and _send_message of src/app.py: a       *)
(* message is its JSON text behind a 4-byte little-endian length.  Bytes   *)
(* are numbers in 0..255; the transport hands them over in pieces.         *)

\* struct.pack("<I", n)
pack_le(n) ==
    <<n % 256, (n \div 256) % 256, (n \div 65536) % 256, (n \div 16777216) % 256>>

\* struct.unpack("<I", b)[0], for b of 4 bytes
unpack_le(b) == b[1] + 256 * b[2] + 65536 * b[3] + 16777216 * b[4]

\* The messages a peer sends: {} and {"type":"transcript"}, each written
\* with its braces and one byte for what is between them.
Messages == {[type |-> "none"], [type |-> "transcript"]}

\* json.dumps(message).encode("utf-8")
json_dumps(message) ==
    IF message.type = "none" THEN <<123, 125>> ELSE <<123, 116, 125>>

\* json.loads(data.decode("utf-8")): the message whose text this is; raises
\* on anything else, which _receive_message turns into None.
json_loads(bytes) ==
    IF \E m \in Messages : json_dumps(m) = bytes
    THEN Some(CHOOSE m \in Messages : json_dumps(m) = bytes)
    ELSE None

\* _send_message: struct.pack("<I", len(data)) + data
framed(message) == pack_le(Len(json_dumps(message))) \o json_dumps(message)

\* The ways of cutting n bytes into non-empty pieces: the pieces' sizes.
RECURSIVE Cuts(_)
Cuts(n) ==
    IF n = 0 THEN {<<>>}
    ELSE UNION {{<<k>> \o c : c \in Cuts(n - k)} : k \in 1..n}

\* self.socket.recv(bufsize): at most bufsize bytes of the piece that is
\* arriving, b"" once the peer has closed.
recv(bufsize) ==
    IF cuts = <<>> THEN <<>>
    ELSE SubSeq(arriving, 1, IF bufsize < Head(cuts) THEN bufsize ELSE Head(cuts))

\* The transport after recv handed over n bytes.
Received(n) ==
    /\ arriving' = SubSeq(arriving, n + 1, Len(arriving))
    /\ cuts' = IF cuts = <<>> THEN <<>>
               ELSE IF n < Head(cuts) THEN <<Head(cuts) - n>> \o Tail(cuts)
               ELSE Tail(cuts)

\* return from _receive_message
ReceiveReturn(value) ==
    /\ recv_pc' = "returned"
    /\ recv_result' = value

(* size_data = self.socket.recv(4); nothing read: return None; otherwise   *)
(* struct.unpack("<I", size_data), which raises unless size_data has 4     *)
(* bytes: except Exception, return None.                                   *)
ReceiveSize ==
    /\ recv_pc = "size"
    /\ LET size_data == recv(4)
       IN  /\ Received(Len(size_data))
           /\ IF size_data = <<>> \/ Len(size_data) # 4
              THEN ReceiveReturn(None) /\ UNCHANGED <<declared_size, data>>
              ELSE /\ declared_size' = unpack_le(size_data)
                   /\ data' = <<>>
                   /\ recv_pc' = "data"
                   /\ UNCHANGED recv_result
    /\ UNCHANGED <<sent_message, cut_short>>

(* One turn of while len(data) < size: chunk = recv(size - len(data));     *)
(* nothing read: return None; else data += chunk.                          *)
ReceiveData ==
    /\ recv_pc = "data"
    /\ Len(data) < declared_size
    /\ LET chunk == recv(declared_size - Len(data))
       IN  /\ Received(Len(chunk))
           /\ IF chunk = <<>>
              THEN ReceiveReturn(None) /\ UNCHANGED data
              ELSE data' = data \o chunk /\ UNCHANGED <<recv_pc, recv_result>>
    /\ UNCHANGED <<declared_size, sent_message, cut_short>>

(* return json.loads(data.decode("utf-8"))                                 *)
ReceiveDecode ==
    /\ recv_pc = "data"
    /\ Len(data) >= declared_size
    /\ ReceiveReturn(json_loads(data))
    /\ UNCHANGED <<arriving, cuts, declared_size, data, sent_message, cut_short>>

RecvIdle ==
    /\ arriving = <<>>
    /\ cuts = <<>>
    /\ recv_pc = "returned"
    /\ declared_size = 0
    /\ data = <<>>
    /\ recv_result = None
    /\ sent_message = [type |-> "none"]
    /\ cut_short = FALSE

(* _receive_message is called: the peer has sent a message, or a part of   *)
(* it before closing, and the transport delivers it cut in some way.       *)
RecvInit ==
    /\ sent_message \in Messages
    /\ \E n \in 0..Len(framed(sent_message)) :
          /\ arriving = SubSeq(framed(sent_message), 1, n)
          /\ cut_short = (n < Len(framed(sent_message)))
          /\ cuts \in Cuts(n)
    /\ recv_pc = "size"
    /\ declared_size = 0
    /\ data = <<>>
    /\ recv_result = None

----------------------------------------------------------------------------
(* ONVIFVoiceAssistant.start, _process_audio_stream and stop: the driver.  *)
(* The driver is one coroutine: a step runs from one point where it can    *)
(* be suspended or wait for the stream to the next.  stop() is called from *)
(* outside it, between any two steps.                                      *)

\* await asyncio.sleep(5)
BackoffDelay == 5

\* Full-size chunks in the largest packet.
MaxPacketFrames == 2

\* Failures in a row that are counted.
MaxFailures == 2

\* The frames the camera delivers: loud speech and silence.
DriverFrames ==
    {f \in Frames : f.samples \in {<<500, -500>>, <<0, 0>>}}

count_failure(n) == IF n < MaxFailures THEN n + 1 ELSE n

\* Mutant of keep_running: the flag is not looked at.
keep_running_ignores_stop == TRUE

\* while self.running
keep_running == running

\* Mutant of intake_ready: chunks are taken while a call is awaited.
intake_ready_while_transcribing == driver_pc \in {"streaming", "transcribing"}

\* The coroutine is in the loops over the stream, not suspended in an await.
intake_ready == driver_pc = "streaming"

\* Mutant of after_backoff: start() returns after the sleep.
after_backoff_gives_up == "stopped"

\* After await asyncio.sleep(5) the while loop goes round again.
after_backoff == "loop"

\* An exception leaves _process_audio_stream: except Exception in start(),
\* then await asyncio.sleep(5).  Nothing closes the container on this path.
Raise ==
    /\ driver_pc' = "backoff"
    /\ pending' = 0
    /\ failures' = count_failure(failures)
    /\ slept' = 0

\* container.close()
close_container == container_open' = FALSE

(* start(): self.running = True, then the while loop.                      *)
Start ==
    /\ driver_pc = "idle"
    /\ running' = TRUE
    /\ driver_pc' = "loop"
    /\ UNCHANGED <<pending, in_flight, stop_called, stopped_at, failures, slept,
                   open_tick, unchecked, stop_seen, container_open, leaked, open_called>>
    /\ UNCHANGED segVars

(* stop(): self.running = False                                            *)
Stop ==
    /\ driver_pc # "idle"
    /\ running
    /\ running' = FALSE
    /\ stop_called' = TRUE
    /\ stopped_at' = driver_pc
    /\ UNCHANGED <<driver_pc, pending, in_flight, failures, slept, open_tick,
                   unchecked, stop_seen, container_open, leaked, open_called>>
    /\ UNCHANGED segVars

(* while self.running is true: _process_audio_stream opens the stream with *)
(* av.open and finds its audio stream.                                     *)
OpenStream ==
    /\ driver_pc = "loop"
    /\ keep_running
    /\ driver_pc' = "streaming"
    /\ pending' = 0
    /\ open_tick' = ~open_tick
    /\ unchecked' = 0
    /\ leaked' = (leaked \/ container_open)
    /\ open_called' = TRUE
    /\ container_open' = TRUE
    /\ UNCHANGED <<running, in_flight, stop_called, stopped_at, failures, slept,
                   stop_seen>>
    /\ UNCHANGED segVars

(* while self.running is true: av.open raises (opened false), or it gives  *)
(* a container without an audio stream and _process_audio_stream raises    *)
(* (opened true).                                                          *)
OpenFails(opened) ==
    /\ driver_pc = "loop"
    /\ keep_running
    /\ Raise
    /\ open_tick' = ~open_tick
    /\ unchecked' = 0
    /\ leaked' = (leaked \/ container_open)
    /\ open_called' = TRUE
    /\ container_open' = opened
    /\ UNCHANGED <<running, in_flight, stop_called, stopped_at, stop_seen>>
    /\ UNCHANGED segVars

(* while self.running is false: start() returns.                           *)
ExitLoop ==
    /\ driver_pc = "loop"
    /\ ~keep_running
    /\ driver_pc' = "stopped"
    /\ unchecked' = 0
    /\ stop_seen' = TRUE
    /\ UNCHANGED <<running, pending, in_flight, stop_called, stopped_at, failures,
                   slept, open_tick, container_open, leaked, open_called>>
    /\ UNCHANGED segVars

(* for packet in container.demux(audio_stream), self.running true: the     *)
(* packet decodes to n full-size chunks.                                   *)
TakePacket(n) ==
    /\ intake_ready
    /\ pending = 0
    /\ running
    /\ pending' = n
    /\ failures' = 0
    /\ unchecked' = 0
    /\ UNCHANGED <<running, driver_pc, in_flight, stop_called, stopped_at, slept,
                   open_tick, stop_seen, container_open, leaked, open_called>>
    /\ UNCHANGED segVars

(* for packet in container.demux(audio_stream): if not self.running:       *)
(* break; container.close(), and _process_audio_stream returns.            *)
BreakOnStop ==
    /\ intake_ready
    /\ pending = 0
    /\ ~running
    /\ driver_pc' = "loop"
    /\ slept' = 0
    /\ unchecked' = 0
    /\ stop_seen' = TRUE
    /\ close_container
    /\ UNCHANGED <<running, pending, in_flight, stop_called, stopped_at, failures,
                   open_tick, leaked, open_called>>
    /\ UNCHANGED segVars

(* One full-size chunk of the packet goes through the VAD branch or the    *)
(* no-VAD branch; when that gives an utterance, _transcribe_and_process is *)
(* awaited.  self.running is not looked at between the chunks of a packet. *)
DriverFrame(frame) ==
    /\ intake_ready
    /\ pending > 0
    /\ VadFrame(frame) \/ NoVadFrame(frame)
    /\ pending' = pending - 1
    /\ unchecked' = unchecked + 1
    /\ IF complete_audio'.some
       THEN driver_pc' = "transcribing" /\ in_flight' = in_flight + 1
       ELSE UNCHANGED <<driver_pc, in_flight>>
    /\ UNCHANGED <<running, stop_called, stopped_at, failures, slept, open_tick,
                   stop_seen, container_open, leaked, open_called>>

(* await self._transcribe_and_process(complete_audio) is over: it catches  *)
(* every Exception itself, the chunk loop goes on.                         *)
TranscribeReturns ==
    /\ driver_pc = "transcribing"
    /\ driver_pc' = "streaming"
    /\ in_flight' = in_flight - 1
    /\ UNCHANGED <<running, pending, stop_called, stopped_at, failures, slept,
                   open_tick, unchecked, stop_seen, container_open, leaked, open_called>>
    /\ UNCHANGED segVars

(* demux, decode or resample raises: the stream dropped or cannot be       *)
(* decoded.                                                                *)
StreamError ==
    /\ intake_ready
    /\ Raise
    /\ UNCHANGED <<running, in_flight, stop_called, stopped_at, open_tick,
                   unchecked, stop_seen, container_open, leaked, open_called>>
    /\ UNCHANGED segVars

(* The demux loop runs out of packets: container.close(), and              *)
(* _process_audio_stream returns.                                          *)
StreamEnds ==
    /\ intake_ready
    /\ pending = 0
    /\ driver_pc' = "loop"
    /\ failures' = 0
    /\ slept' = 0
    /\ close_container
    /\ UNCHANGED <<running, pending, in_flight, stop_called, stopped_at, open_tick,
                   unchecked, stop_seen, leaked, open_called>>
    /\ UNCHANGED segVars

(* await asyncio.sleep(5) is over.                                         *)
BackoffDone ==
    /\ driver_pc = "backoff"
    /\ driver_pc' = after_backoff
    /\ slept' = BackoffDelay
    /\ UNCHANGED <<running, pending, in_flight, stop_called, stopped_at, failures,
                   open_tick, unchecked, stop_seen, container_open, leaked, open_called>>
    /\ UNCHANGED segVars

(* ONVIFVoiceAssistant.__init__: self.running = False                      *)
DriverIdle ==
    /\ running = FALSE
    /\ driver_pc = "idle"
    /\ pending = 0
    /\ in_flight = 0
    /\ stop_called = FALSE
    /\ stopped_at = "never"
    /\ failures = 0
    /\ slept = 0
    /\ open_tick = FALSE
    /\ unchecked = 0
    /\ stop_seen = FALSE
    /\ container_open = FALSE
    /\ leaked = FALSE
    /\ open_called = FALSE

vars == <<segVars, matchVars, sendVars, recvVars, driverVars>>

----------------------------------------------------------------------------
(* Spec: the segmenter and the frame loop.                                 *)
Init == SegInit /\ MatchIdle /\ SendIdle /\ RecvIdle /\ DriverIdle

Next ==
    \/ \E frame \in Frames :
          VadFrame(frame) /\ UNCHANGED <<matchVars, sendVars, recvVars, driverVars>>
    \/ \E frame \in Frames :
          NoVadFrame(frame) /\ UNCHANGED <<matchVars, sendVars, recvVars, driverVars>>

Spec == Init /\ [][Next]_vars

----------------------------------------------------------------------------
(* MatchSpec: one transcript processed against one configuration.          *)
SegIdle == SegInit /\ vad_enabled

MatchInit ==
    /\ ActIdle
    /\ SegIdle
    /\ SendIdle
    /\ RecvIdle
    /\ DriverIdle
    /\ \E input \in MatchInputs :
          /\ transcript = input[1]
          /\ commands = input[2]
    /\ executed = <<>>
    /\ raised = FALSE
    /\ match_pc = "ready"
    /\ matcher = "addon"

MatchNext == TranscribeAndProcess /\ UNCHANGED <<segVars, sendVars, recvVars, driverVars>>

MatchSpec == MatchInit /\ [][MatchNext]_vars

----------------------------------------------------------------------------
(* WordMatchSpec: one transcript processed against one rule, by the        *)
(* add-on's _process_command or by that of src/app.py.                     *)
WordMatchInit ==
    /\ ActIdle
    /\ SegIdle
    /\ SendIdle
    /\ RecvIdle
    /\ DriverIdle
    /\ \E input \in WordInputs :
          /\ transcript = input[1]
          /\ commands = input[2]
    /\ executed = <<>>
    /\ raised = FALSE
    /\ match_pc = "ready"
    /\ matcher \in {"addon", "legacy"}

WordMatchSpec == WordMatchInit /\ [][MatchNext]_vars

----------------------------------------------------------------------------
(* ActionSpec: one call of _execute_actions, for a rule of any shape, with *)
(* any of the token variables set and requests.post doing what it may.     *)
ActionInit ==
    /\ SegIdle
    /\ SendIdle
    /\ RecvIdle
    /\ DriverIdle
    /\ transcript = <<>>
    /\ commands = <<>>
    /\ executed = <<>>
    /\ raised = FALSE
    /\ match_pc = "done"
    /\ matcher = "addon"
    /\ command \in Commands
    /\ env \in SUBSET TokenNames
    /\ act_pc = "ready"
    /\ attempted = <<>>
    /\ escaped = FALSE

ActionNext ==
    \/ ExecuteActions /\ UNCHANGED <<segVars, sendVars, recvVars, driverVars>>
    \/ \E post \in PostOutcomes :
          ExecuteAction(post) /\ UNCHANGED <<segVars, sendVars, recvVars, driverVars>>

ActionSpec == ActionInit /\ [][ActionNext]_vars

----------------------------------------------------------------------------
(* SendSpec: one call of send_audio.                                       *)
SendSpecInit == SegIdle /\ MatchIdle /\ SendInit /\ RecvIdle /\ DriverIdle

SendSpecNext ==
    \/ Connect /\ UNCHANGED <<segVars, matchVars, recvVars, driverVars>>
    \/ ConnectFails /\ UNCHANGED <<segVars, matchVars, recvVars, driverVars>>
    \/ WriteStart /\ UNCHANGED <<segVars, matchVars, recvVars, driverVars>>
    \/ WriteChunk /\ UNCHANGED <<segVars, matchVars, recvVars, driverVars>>
    \/ WriteStop /\ UNCHANGED <<segVars, matchVars, recvVars, driverVars>>
    \/ WriteFails /\ UNCHANGED <<segVars, matchVars, recvVars, driverVars>>
    \/ AwaitDeadline /\ UNCHANGED <<segVars, matchVars, recvVars, driverVars>>
    \/ \E late \in LateMessages(waited + ReadTimeout) :
          ReadTimesOut(late) /\ UNCHANGED <<segVars, matchVars, recvVars, driverVars>>
    \/ \E delay \in EventDelays :
          ReadClosed(delay) /\ UNCHANGED <<segVars, matchVars, recvVars, driverVars>>
    \/ \E text \in TranscriptTexts, delay \in EventDelays :
          ReadTranscript(text, delay) /\ UNCHANGED <<segVars, matchVars, recvVars, driverVars>>
    \/ \E delay \in EventDelays :
          ReadOther(delay) /\ UNCHANGED <<segVars, matchVars, recvVars, driverVars>>
    \/ LegacyConnect /\ UNCHANGED <<segVars, matchVars, recvVars, driverVars>>
    \/ LegacyConnectFails /\ UNCHANGED <<segVars, matchVars, recvVars, driverVars>>
    \/ LegacySendTranscribe /\ UNCHANGED <<segVars, matchVars, recvVars, driverVars>>
    \/ LegacySendChunk /\ UNCHANGED <<segVars, matchVars, recvVars, driverVars>>
    \/ LegacySendStop /\ UNCHANGED <<segVars, matchVars, recvVars, driverVars>>
    \/ LegacySendFails /\ UNCHANGED <<segVars, matchVars, recvVars, driverVars>>
    \/ \E response \in LegacyResponses, late \in LateMessages(0) :
          LegacyReceive(response, late) /\ UNCHANGED <<segVars, matchVars, recvVars, driverVars>>
    \/ LegacyReuse /\ UNCHANGED <<segVars, matchVars, recvVars, driverVars>>
    \/ \E len \in CallLens(client, sample_rate, sample_width, channels) :
          NextCall(len) /\ UNCHANGED <<segVars, matchVars, recvVars, driverVars>>

SendSpec == SendSpecInit /\ [][SendSpecNext]_vars

----------------------------------------------------------------------------
(* TimeoutSpec: the response timeout of send_audio, for utterances of many *)
(* lengths.  A call starts where the chunk loop has just ended and writes  *)
(* the stream stop, which is where the timeout is computed.                *)

\* The longest utterance is 10 * MaxTens seconds long.
MaxTens == 13

\* total_chunks = (len(audio_data) + chunk_size - 1) // chunk_size
total_chunks(len, size) == (len + size - 1) \div size

\* The events the call has written when the chunk loop ends.
written_after_chunks(rate, width, chans, len) ==
    LET size == chunk_size(width, chans)
    IN  <<AudioStart(rate, width, chans)>> \o
        [k \in 1..total_chunks(len, size) |->
            AudioChunk(rate, width, chans, slice(len, (k - 1) * size, size))]

TimeoutInit ==
    /\ SegIdle
    /\ MatchIdle
    /\ RecvIdle
    /\ DriverIdle
    /\ client = "addon"
    /\ socket = "None"
    /\ sample_rate \in {8000, 16000}
    /\ sample_width = 2
    /\ channels \in {1, 2}
    /\ \E tens \in 0..MaxTens :
          audio_len = utterance_bytes(10 * tens, sample_rate, sample_width, channels)
    /\ send_pc = "chunks"
    /\ conn_open = TRUE
    /\ wire = written_after_chunks(sample_rate, sample_width, channels, audio_len)
    /\ offset = total_chunks(audio_len, chunk_size(sample_width, channels))
                   * chunk_size(sample_width, channels)
    /\ reads = 0
    /\ waited = 0
    /\ result = None
    /\ write_failed = FALSE
    /\ timeout = 0
    /\ last_read = "no_read"
    /\ unread = NoMessage
    /\ calls = 1
    /\ prev_failed = FALSE
    /\ fresh = TRUE

TimeoutNext == WriteStop /\ UNCHANGED <<segVars, matchVars, recvVars, driverVars>>

TimeoutSpec == TimeoutInit /\ [][TimeoutNext]_vars

----------------------------------------------------------------------------
(* ReceiveSpec: one call of the legacy client's _receive_message.          *)
ReceiveInit == SegIdle /\ MatchIdle /\ SendIdle /\ RecvInit /\ DriverIdle

ReceiveNext ==
    \/ ReceiveSize /\ UNCHANGED <<segVars, matchVars, sendVars, driverVars>>
    \/ ReceiveData /\ UNCHANGED <<segVars, matchVars, sendVars, driverVars>>
    \/ ReceiveDecode /\ UNCHANGED <<segVars, matchVars, sendVars, driverVars>>

ReceiveSpec == ReceiveInit /\ [][ReceiveNext]_vars

----------------------------------------------------------------------------
(* DriverSpec: the driver, from start() on, with stop() called at any      *)
(* time.  DriverFairSpec adds that a sleep ends and that the coroutine,    *)
(* when it can go on by itself, does.                                      *)
DriverInit == SegInit /\ MatchIdle /\ SendIdle /\ RecvIdle /\ DriverIdle

Reopen == OpenStream \/ \E opened \in BOOLEAN : OpenFails(opened)

DriverNext ==
    \/ Start /\ UNCHANGED <<matchVars, sendVars, recvVars>>
    \/ Stop /\ UNCHANGED <<matchVars, sendVars, recvVars>>
    \/ OpenStream /\ UNCHANGED <<matchVars, sendVars, recvVars>>
    \/ \E opened \in BOOLEAN :
          OpenFails(opened) /\ UNCHANGED <<matchVars, sendVars, recvVars>>
    \/ ExitLoop /\ UNCHANGED <<matchVars, sendVars, recvVars>>
    \/ \E n \in 1..MaxPacketFrames :
          TakePacket(n) /\ UNCHANGED <<matchVars, sendVars, recvVars>>
    \/ BreakOnStop /\ UNCHANGED <<matchVars, sendVars, recvVars>>
    \/ \E frame \in DriverFrames :
          DriverFrame(frame) /\ UNCHANGED <<matchVars, sendVars, recvVars>>
    \/ TranscribeReturns /\ UNCHANGED <<matchVars, sendVars, recvVars>>
    \/ StreamError /\ UNCHANGED <<matchVars, sendVars, recvVars>>
    \/ StreamEnds /\ UNCHANGED <<matchVars, sendVars, recvVars>>
    \/ BackoffDone /\ UNCHANGED <<matchVars, sendVars, recvVars>>

DriverSpec == DriverInit /\ [][DriverNext]_vars

DriverFairSpec ==
    /\ DriverSpec
    /\ WF_vars(BackoffDone /\ UNCHANGED <<matchVars, sendVars, recvVars>>)
    /\ WF_vars(Reopen /\ UNCHANGED <<matchVars, sendVars, recvVars>>)

\* A step of the coroutine that runs start(): any step of the driver but the
\* call of stop(), which comes from outside.
Coroutine ==
    \/ Start
    \/ Reopen
    \/ ExitLoop
    \/ \E n \in 1..MaxPacketFrames : TakePacket(n)
    \/ BreakOnStop
    \/ \E frame \in DriverFrames : DriverFrame(frame)
    \/ TranscribeReturns
    \/ StreamError
    \/ StreamEnds
    \/ BackoffDone

(* DriverLiveSpec: the coroutine goes on whenever it can: the Frame Source *)
(* delivers a packet, ends or raises, a transcription call returns, a      *)
(* sleep ends.                                                             *)
DriverLiveSpec ==
    /\ DriverSpec
    /\ WF_vars(Coroutine /\ UNCHANGED <<matchVars, sendVars, recvVars>>)

----------------------------------------------------------------------------
(* Properties of the segmenter and the frame loop (checked under Spec).    *)

\* Sum of the byte lengths of a run of frames.
RECURSIVE total_bytes(_)
total_bytes(frames) ==
    IF frames = <<>> THEN 0
    ELSE ByteLen(Head(frames).samples) + total_bytes(Tail(frames))

\* frames is k speech frames followed only by non-speech frames.
SpeechThenSilence(frames, k) ==
    /\ k \in 1..Len(frames)
    /\ \A i \in 1..k : final_is_speech(frames[i])
    /\ \A i \in (k + 1)..Len(frames) : ~final_is_speech(frames[i])

AllSpeech(frames) == \A i \in 1..Len(frames) : final_is_speech(frames[i])

Idle ==
    /\ buffer = <<>>
    /\ ~is_speaking
    /\ silence_frames = 0
    /\ recorded_frames = 0

\* C1: starting from idle, a run of k < max_recording_frames speech frames
\* followed by non-speech frames yields None on every frame while the silence
\* run is shorter than max_silence_frames, and on the frame where the run
\* reaches max_silence_frames exactly one utterance, the concatenation in
\* arrival order of all frames fed (byte length = sum of their lengths), after
\* which the segmenter is idle.
C1_SpeechThenSilenceEmitsOnce ==
    vad_enabled =>
        \A k \in 1..Len(fed) :
            (SpeechThenSilence(fed, k) /\ k < max_recording_frames) =>
                LET j == Len(fed) - k
                IN  /\ j <= max_silence_frames
                    /\ j < max_silence_frames =>
                          /\ complete_audio = None
                          /\ emits = 0
                          /\ is_speaking
                          /\ buffer = fed
                          /\ silence_frames = j
                    /\ j = max_silence_frames =>
                          /\ complete_audio = Some(join(fed))
                          /\ ByteLen(complete_audio.val) = total_bytes(fed)
                          /\ ByteLen(complete_audio.val) = Len(fed) * frame_size
                          /\ emits = 1
                          /\ did_reset
                          /\ Idle

\* C1 witness: two speech frames and then max_silence_frames non-speech frames
\* have been fed, and the utterance has been returned.
C1_Witness ==
    /\ vad_enabled
    /\ SpeechThenSilence(fed, 2)
    /\ Len(fed) = 2 + max_silence_frames
    /\ complete_audio.some

\* C2: starting from idle, continuous speech yields None on every frame
\* before the cap and exactly one utterance on the max_recording_frames-th
\* speech frame, of max_recording_frames * frame_size bytes, with no silence
\* frame seen, after which the segmenter is reset.
C2_ContinuousSpeechCutAtCap ==
    (vad_enabled /\ fed # <<>> /\ AllSpeech(fed)) =>
        /\ Len(fed) <= max_recording_frames
        /\ Len(fed) < max_recording_frames =>
              /\ complete_audio = None
              /\ emits = 0
              /\ is_speaking
              /\ buffer = fed
              /\ recorded_frames = Len(fed)
              /\ silence_frames = 0
        /\ Len(fed) = max_recording_frames =>
              /\ complete_audio = Some(join(fed))
              /\ ByteLen(complete_audio.val) = max_recording_frames * frame_size
              /\ emits = 1
              /\ did_reset
              /\ Idle

\* C2 witness: max_recording_frames speech frames in a row have been fed and
\* the utterance has been forced out.
C2_Witness ==
    /\ vad_enabled
    /\ AllSpeech(fed)
    /\ Len(fed) = max_recording_frames
    /\ complete_audio.some
    /\ did_reset

\* The detector says non-speech, or it says speech (or raises, which counts as
\* speech) but the frame's RMS energy is below min_energy_threshold.
GatedOut(frame) ==
    \/ frame.vad = "nonspeech"
    \/ /\ frame.vad \in {"speech", "error"}
       /\ energy_below(frame, min_energy_threshold)

\* C3: in the idle state, add_frame with a frame whose final classification is
\* non-speech (by the detector, or by the energy gate) returns None and leaves
\* buffer, is_speaking, silence_frames and recorded_frames unchanged.
C3_IdleNonSpeechIsNoOp ==
    [][(vad_enabled /\ ~is_speaking /\ GatedOut(last_frame')) =>
          /\ complete_audio' = None
          /\ UNCHANGED <<buffer, is_speaking, silence_frames, recorded_frames>>
          /\ Idle']_vars

\* C3 witness: a frame the detector calls speech but whose energy is below
\* the threshold has just been fed to the idle segmenter.
C3_Witness ==
    /\ vad_enabled
    /\ fed = <<last_frame>>
    /\ last_frame.vad = "speech"
    /\ energy_below(last_frame, min_energy_threshold)
    /\ Idle
    /\ complete_audio = None

\* The frame of this step ends up in the utterance buffer (or in the
\* utterance returned by this very call).
Appended(frame) ==
    \/ complete_audio' = None /\ buffer' = Append(buffer, frame)
    \/ complete_audio' = Some(join(Append(buffer, frame)))

\* C4 as stated: whenever the detector raises on a frame, the frame is
\* appended to the utterance buffer, whatever else is true of the frame.
C4_Original_DetectorErrorAlwaysAppends ==
    [][(vad_enabled /\ last_frame'.vad = "error") => Appended(last_frame')]_vars

\* C4 amended: a frame on which the detector raises is treated as a frame the
\* detector calls speech and passes the same energy gate: with energy at or
\* above min_energy_threshold it is appended (starting an utterance when idle);
\* below it, it is appended only while an utterance is in progress and is
\* discarded, with the state unchanged, when the segmenter is idle.
C4_DetectorErrorIsSpeechBeforeGate ==
    [][(vad_enabled /\ last_frame'.vad = "error") =>
          IF is_speaking \/ ~energy_below(last_frame', min_energy_threshold)
          THEN /\ Appended(last_frame')
               /\ ~energy_below(last_frame', min_energy_threshold) =>
                     (is_speaking' \/ complete_audio'.some)
          ELSE /\ complete_audio' = None
               /\ UNCHANGED <<buffer, is_speaking, silence_frames,
                              recorded_frames>>]_vars

\* C4 witness: a frame on which the detector raised has started an utterance.
C4_Witness ==
    /\ vad_enabled
    /\ last_frame.vad = "error"
    /\ fed = <<last_frame>>
    /\ is_speaking
    /\ buffer = <<last_frame>>

\* C5 as stated: in every configuration the buffer is non-empty only while
\* is_speaking is true, and it is empty with both counters zero right after
\* every reset().
C5_Original_BufferOnlyWhileSpeaking ==
    /\ buffer # <<>> => is_speaking
    /\ did_reset => (buffer = <<>> /\ silence_frames = 0 /\ recorded_frames = 0)

\* C5 amended: with vad_enabled true the buffer is non-empty only while
\* is_speaking is true; with vad_enabled false the frame loop fills the buffer
\* itself and is_speaking stays false; in every configuration the buffer is
\* empty with both counters zero right after every reset().
C5_BufferOnlyWhileSpeakingWithVad ==
    /\ vad_enabled => (buffer # <<>> => is_speaking)
    /\ ~vad_enabled => ~is_speaking
    /\ did_reset => Idle

\* C5 witness: an utterance ended by trailing silence has just been handed
\* off and the segmenter reset.
C5_Witness ==
    /\ vad_enabled
    /\ did_reset
    /\ Idle
    /\ complete_audio.some
    /\ ~final_is_speech(last_frame)

----------------------------------------------------------------------------
(* Properties of the command matcher (checked under MatchSpec).            *)

\* The words of p occur in t at strictly increasing positions, in p's order.
RECURSIVE IsSubsequence(_, _)
IsSubsequence(p, t) ==
    IF p = <<>> THEN TRUE
    ELSE IF t = <<>> THEN FALSE
    ELSE IF Head(p) = Head(t) THEN IsSubsequence(Tail(p), Tail(t))
    ELSE IsSubsequence(p, Tail(t))

\* The transcript as _process_command compares it, and its word list.
TextClean == clean_text(recognized(transcript))

TextWords == split(TextClean)

\* The i-th rule's pattern as compared, and its word list.
PatternOf(i) == clean_pattern(commands[i].pattern)

PatternWords(i) == split(PatternOf(i))

\* C6: whenever a rule is matched by the non-exact branch, its pattern words
\* occur in the transcript's word list at strictly increasing positions, in
\* pattern order (they are a subsequence of the transcript's words).
C6_Original_PartialMatchIsSubsequence ==
    (match_pc = "done" /\ executed # <<>>) =>
        LET i == executed[1]
        IN  ~exact_match(TextClean, PatternOf(i)) =>
                IsSubsequence(PatternWords(i), TextWords)

\* C7: a rule whose non-empty pattern's words are a subsequence of the
\* transcript's words, whatever the padding, matches the transcript; for the
\* first rule of the configuration this means its actions are executed.
C7_Original_SubsequenceAlwaysMatches ==
    (/\ match_pc = "done"
     /\ commands[1].has_pattern
     /\ PatternWords(1) # <<>>
     /\ IsSubsequence(PatternWords(1), TextWords)) => executed = <<1>>

\* The i-th rule matches the transcript, by exact or subsequence match.
Matching(i) ==
    commands[i].has_pattern /\ rule_matches(TextClean, commands[i].pattern)

\* The first rule, in configured order, that matches (none or one).
FirstMatch ==
    {i \in 1..Len(commands) : Matching(i) /\ \A j \in 1..(i - 1) : ~Matching(j)}

\* C8: for each transcript the actions of at most one rule are executed, and
\* a rule executed is the first one, in configured order, that matches; no
\* rule after it is executed; when no rule matches nothing is executed; and
\* when every rule before the first matching one has its pattern, that rule
\* is executed.
C8_FirstMatchWins ==
    match_pc = "done" =>
        /\ Len(executed) <= 1
        /\ \A k \in 1..Len(executed) : executed[k] \in FirstMatch
        /\ FirstMatch = {} => executed = <<>>
        /\ \A i \in FirstMatch :
              (\A j \in 1..(i - 1) : commands[j].has_pattern) => executed = <<i>>

\* C8 witness: two rules both match the transcript and only the first one was
\* executed.
C8_Witness ==
    /\ match_pc = "done"
    /\ Len(commands) = 2
    /\ Matching(1)
    /\ Matching(2)
    /\ commands[1] # commands[2]
    /\ executed = <<1>>

\* The normalization the claim applies to both sides: lower case, strip
\* surrounding whitespace, strip trailing sentence punctuation.
Normalize(s) == rstrip(strip(lower(s)), Punctuation)

\* C9: a transcript and a rule pattern that are equal after the same
\* normalization (lower case, surrounding whitespace stripped, trailing
\* . , ! ? stripped) match, so the rule's actions are executed.
C9_Original_SameNormalizationMatches ==
    (/\ match_pc = "done"
     /\ commands[1].has_pattern
     /\ Normalize(transcript) = Normalize(commands[1].pattern)) =>
        executed = <<1>>

----------------------------------------------------------------------------
(* Properties of send_audio (checked under SendSpec).                      *)

\* The message that opens the stream, declaring rate, width and channels:
\* AudioStart for the add-on's client, "transcribe" for the legacy one.
StreamStartTypes == {"audio-start", "transcribe"}

\* The bytes of the utterance an audio-chunk message carries.
Payload(m) == IF client = "addon" THEN m.audio ELSE m.data.hex_of

\* The events written so far are in protocol order: the first one, and only
\* it, is the stream start; a stream stop is the last event written; every
\* audio chunk is non-empty and carries the bytes that follow those of the
\* chunk before it, the first one starting at byte 0.
InProtocolOrder(w) ==
    \A i \in 1..Len(w) :
        /\ (i = 1) <=> (w[i].type \in StreamStartTypes)
        /\ w[i].type = "audio-stop" => i = Len(w)
        /\ w[i].type = "audio-chunk" =>
              /\ Payload(w[i]).lo < Payload(w[i]).hi
              /\ Payload(w[i]).lo =
                    (IF w[i - 1].type = "audio-chunk" THEN Payload(w[i - 1]).hi
                     ELSE 0)

\* Everything has been written: start, the whole payload, stop.
StreamComplete(w) ==
    /\ Len(w) >= 2
    /\ w[1].type \in StreamStartTypes
    /\ w[Len(w)].type = "audio-stop"
    /\ IF Len(w) = 2 THEN audio_len = 0
       ELSE w[Len(w) - 1].type = "audio-chunk"
            /\ Payload(w[Len(w) - 1]).hi = audio_len

\* C10: in every send_audio call the events written are, in order, one
\* stream start, the audio chunks in payload order, one stream stop; no chunk
\* is written before the start or after the stop; the first read is made only
\* after the stop was written; and a call that returns without a failed write
\* has written all of them.
C10_StartChunksStopThenRead ==
    /\ InProtocolOrder(wire)
    /\ reads > 0 => StreamComplete(wire)
    /\ send_pc = "await" => StreamComplete(wire)
    /\ (send_pc = "returned" /\ ~write_failed) =>
          (StreamComplete(wire) /\ reads > 0)

\* C10 witness: a call with a payload of more than one chunk, the last one
\* short, has written everything and returned a transcript.
C10_Witness ==
    /\ send_pc = "returned"
    /\ ~write_failed
    /\ result.some
    /\ Len(wire) >= 4
    /\ Payload(wire[Len(wire) - 1]).hi - Payload(wire[Len(wire) - 1]).lo
          < (IF client = "addon" THEN chunk_size(sample_width, channels)
             ELSE LegacyChunkSize)

\* The audio-chunk events among those written, in the order written.
ChunksOf(w) == SelectSeq(w, LAMBDA m : m.type = "audio-chunk")

\* The receiver's side: the run of bytes obtained by putting the chunks'
\* payloads one after the other, as offsets into the utterance; hi is -1
\* when a payload does not carry the bytes that follow the ones before it.
RECURSIVE Reassemble(_, _)
Reassemble(chunks, upto) ==
    IF chunks = <<>> THEN [lo |-> 0, hi |-> upto]
    ELSE IF Head(chunks).audio.lo = upto /\ Head(chunks).audio.hi >= upto
         THEN Reassemble(Tail(chunks), Head(chunks).audio.hi)
         ELSE [lo |-> 0, hi |-> -1]

\* The call got as far as writing the stream stop.
AllWritten == send_pc = "await" \/ (send_pc = "returned" /\ ~write_failed)

\* C11: for every PCM buffer (the empty one and lengths that are no multiple
\* of the chunk size included) the payloads of the audio-chunk events, put
\* together in the order sent, are the buffer byte for byte; every chunk but
\* possibly the last holds exactly 1024 * sample_width * channels bytes, no
\* chunk is empty, and each chunk event carries the call's rate, width and
\* channels.
C11_ChunkingRoundTrip ==
    client = "addon" =>
        LET chunks == ChunksOf(wire)
            full == 1024 * sample_width * channels
        IN  /\ \A k \in 1..Len(chunks) :
                  LET n == chunks[k].audio.hi - chunks[k].audio.lo
                  IN  /\ n > 0
                      /\ n <= full
                      /\ k < Len(chunks) => n = full
                      /\ chunks[k].rate = sample_rate
                      /\ chunks[k].width = sample_width
                      /\ chunks[k].channels = channels
            /\ Reassemble(chunks, 0).hi >= 0
            /\ AllWritten =>
                  Reassemble(chunks, 0) = [lo |-> 0, hi |-> audio_len]

\* C11 witness: a buffer of two full chunks and one byte more has been sent
\* whole, the last chunk holding that byte.
C11_Witness ==
    /\ client = "addon"
    /\ AllWritten
    /\ Len(ChunksOf(wire)) = 3
    /\ audio_len = 2 * 1024 * sample_width * channels + 1
    /\ Reassemble(ChunksOf(wire), 0) = [lo |-> 0, hi |-> audio_len]

\* The server accepted the stream and sent nothing at all: the only read
\* made ended by wait_for expiring, with no message on its way.
ServerSilent == reads = 1 /\ last_read = "timeout" /\ unread = NoMessage

\* C12: when the server accepts the stream and never sends a message back,
\* send_audio for a 2-second utterance returns None no earlier than 30 s and
\* no later than 60 s after the stream stop was written.
C12_Original_SilentServerWaitsForTimeout ==
    (/\ client = "addon"
     /\ send_pc = "returned"
     /\ ~write_failed
     /\ ServerSilent
     /\ audio_len = utterance_bytes(2, sample_rate, sample_width, channels)) =>
        /\ result = None
        /\ waited >= MinTimeout
        /\ waited <= MaxTimeout

\* clamp(x, lo, hi)
Clamp(x, lo, hi) == IF x < lo THEN lo ELSE IF x > hi THEN hi ELSE x

\* Greatest common divisor of two positive numbers.
RECURSIVE GCD(_, _)
GCD(a, b) == IF b = 0 THEN a ELSE GCD(b, a % b)

\* C13: the response timeout of send_audio is clamp(0.5 * duration, 30 s,
\* 60 s) with duration the utterance's real duration, its byte length divided
\* by sample_rate * sample_width * channels of the call, for every sample
\* rate and every length.  Both sides are compared as fractions: timeout is
\* in 1/TimeoutUnits s, and 0.5 * duration is audio_len in units of
\* 1/(2 * sample_rate * sample_width * channels) s; the common factor of the
\* two units is divided out before cross-multiplying.
C13_Original_TimeoutFromRealDuration ==
    (client = "addon" /\ send_pc = "await") =>
        LET units == 2 * sample_rate * sample_width * channels
            common == GCD(units, TimeoutUnits)
        IN  timeout * (units \div common) =
                Clamp(audio_len, 30 * units, 60 * units)
                    * (TimeoutUnits \div common)

\* The message arrives before the response timeout has passed (the legacy
\* client has no timeout: it waits as long as the message takes).
BeforeResponseTimeout(message) ==
    client = "addon" => message.at * TimeoutUnits <= timeout

\* C14: while awaiting the result send_audio discards every message that is
\* not a transcript and keeps waiting: when a transcript with non-empty text
\* arrives before the response timeout, after any number of messages of
\* other types, the call returns that transcript's text.  Every read before
\* the last one of a call returned a message of another type, so a call that
\* has returned with such a transcript left unread contradicts it.
C14_Original_TranscriptInTimeIsReturned ==
    (/\ send_pc = "returned"
     /\ ~write_failed
     /\ unread.kind = "transcript"
     /\ strip(unread.text) # <<>>
     /\ BeforeResponseTimeout(unread)) => result = Some(strip(unread.text))

\* The client is in the Disconnected state, its connection closed.
Disconnected == socket = "None" /\ ~conn_open

\* C15: after any send_audio call that ends in a transport-level failure the
\* call has returned None, the client is Disconnected with the connection
\* closed, and the next send_audio call starts by establishing a new
\* connection rather than reusing the failed one.
C15_Original_FailureDisconnectsAndReconnects ==
    /\ (send_pc = "returned" /\ calls >= 1 /\ TransportFailure) =>
          (result = None /\ Disconnected)
    /\ (prev_failed /\ send_pc # "connect") => fresh

----------------------------------------------------------------------------
(* Properties of _receive_message (checked under ReceiveSpec).             *)

\* C16: _receive_message reassembles a length-prefixed message however the
\* transport splits it: for every split of the 4-byte prefix plus payload
\* into non-empty reads it reads on until the declared length has arrived
\* and returns the decoded message; a read of zero bytes at any point yields
\* None.
C16_Original_ReassemblesEverySplit ==
    recv_pc = "returned" =>
        recv_result = (IF cut_short THEN None ELSE Some(sent_message))

----------------------------------------------------------------------------
(* Properties of the driver (checked under DriverSpec and DriverFairSpec). *)

\* The driver takes something from the Frame Source: the next packet, or the
\* next chunk of the packet it has, which goes to the segmenter.
Intake ==
    \/ \E n \in 1..MaxPacketFrames : TakePacket(n)
    \/ \E frame \in DriverFrames : DriverFrame(frame)

\* C17: transcription does not stall frame intake: while a transcription
\* call is in flight (and no stop was signalled) the driver can go on taking
\* frames from the Frame Source and feeding them to the segmenter.
C17_Original_IntakeContinuesDuringCall ==
    (in_flight > 0 /\ running) => ENABLED Intake

\* C18: at most one transcription call is in flight at any time: a second
\* send_audio call never starts before the one before it has returned, in
\* every interleaving of frame arrival, transcription completion, stream
\* errors, reconnects and stop; and a call is in flight exactly while the
\* driver is suspended awaiting it.
C18_AtMostOneCallInFlight ==
    /\ in_flight \in {0, 1}
    /\ in_flight = 1 <=> driver_pc = "transcribing"

\* C18 witness: a session ended with an exception, the stream was reopened,
\* and a call is in flight in the new session.
C18_Witness ==
    /\ in_flight = 1
    /\ slept = BackoffDelay
    /\ driver_pc = "transcribing"

\* C19: supervised reconnect never gives up: whenever opening or reading the
\* Frame Source raises while no stop has been signalled, the driver enters
\* the backoff, waits the fixed 5 s, and then reopens the Frame Source, after
\* any number of failures in a row.  In steps: a failure counted puts the
\* driver in the backoff; the backoff is left only by the 5 s sleep ending,
\* for the top of the loop; from there, unless stop was called, the next
\* thing the driver does is av.open; and from every backoff a stop or a new
\* av.open follows.
C19_ReconnectNeverGivesUp ==
    /\ [][failures' # failures /\ failures' > 0 =>
             (driver_pc' = "backoff" /\ slept' = 0)]_vars
    /\ [][(driver_pc = "backoff" /\ driver_pc' # "backoff") =>
             (driver_pc' = "loop" /\ slept' = BackoffDelay)]_vars
    /\ [][(driver_pc = "loop" /\ running /\ driver_pc' # "loop") =>
             open_tick' # open_tick]_vars
    /\ \A tick \in BOOLEAN :
          (driver_pc = "backoff" /\ open_tick = tick)
              ~> (stop_called \/ open_tick # tick)

\* C19 witness: after MaxFailures failures in a row and the 5 s sleep the
\* stream has been opened again, with no stop signalled.
C19_Witness ==
    /\ driver_pc = "streaming"
    /\ failures = MaxFailures
    /\ slept = BackoffDelay
    /\ running

\* C20: Stopped is terminal: once stop() has been called on a started driver
\* the flag stays false and av.open is never called again, whether stop came
\* during streaming, during an in-flight transcription or during the backoff.
C20_StoppedIsTerminal ==
    [][stop_called => (~running' /\ open_tick' = open_tick)]_vars

\* C20 witness: stop() was called while a transcription was in flight, and
\* start() has returned.
C20_Witness ==
    /\ stop_called
    /\ stopped_at = "transcribing"
    /\ driver_pc = "stopped"

----------------------------------------------------------------------------
(* Properties of stop() (checked under DriverLiveSpec).                    *)

\* This step gives a chunk to the segmenter.
FrameFed == unchecked' = unchecked + 1

\* After stop(), start() returns.
StopLeadsToReturn == stop_called ~> (driver_pc = "stopped")

\* self.running is examined at least once for each chunk given to the
\* segmenter: never two chunks with no examination between them.
ExaminedPerFrame == [][FrameFed => unchecked = 0]_vars

\* Once an examination has found the flag false, no chunk is given to the
\* segmenter.
NoFrameAfterStopSeen == [][stop_seen => ~FrameFed]_vars

\* C21: after stop() the driver eventually leaves its run loop, the stop
\* flag is examined at least once per frame taken from the Frame Source and
\* once per reconnect cycle, and no frame is fed to the segmenter after the
\* first examination that follows the stop signal.
C21_Original_StopExaminedPerFrame ==
    /\ StopLeadsToReturn
    /\ ExaminedPerFrame
    /\ NoFrameAfterStopSeen

----------------------------------------------------------------------------
(* Properties of the driver's resources (checked under DriverSpec).        *)

\* start() has returned after a stop signal.
ReturnedAfterStop == driver_pc = "stopped" /\ stop_called

\* C22: when start() has returned after a stop signal, every container that
\* av.open gave during the run has been closed, those of sessions that ended
\* with an exception included, and no transcription call, hence no
\* connection of the transcription client, is open.
C22_Original_NothingLeakedAtStop ==
    ReturnedAfterStop => (~container_open /\ ~leaked /\ in_flight = 0)

----------------------------------------------------------------------------
(* Properties of configuration errors (checked under MatchSpec).           *)

\* C23: a rule without its pattern field is skipped and the rules after it
\* are still evaluated: the first rule, in configured order, that has a
\* pattern and matches the transcript is executed, whatever rules without a
\* pattern come before it.
C23_Original_MissingPatternSkipsOnlyThatRule ==
    match_pc = "done" => \A i \in FirstMatch : executed = <<i>>

----------------------------------------------------------------------------
(* Properties of the utterances add_frame returns (checked under Spec).    *)

\* add_frame has just returned an utterance.
Returned == vad_enabled /\ complete_audio.some

\* C24: every utterance add_frame returns holds at most
\* max_recording_frames frames, however speech and non-speech frames are
\* interleaved.
C24_Original_UtteranceWithinCap ==
    Returned =>
        ByteLen(complete_audio.val) <= max_recording_frames * frame_size

----------------------------------------------------------------------------
(* Properties of word boundaries (checked under WordMatchSpec).            *)

\* Every word of the i-th rule's pattern is a whole word of the transcript.
WholeWords(i) ==
    \A k \in 1..Len(PatternWords(i)) : contains(TextWords, PatternWords(i)[k])

\* C25: a rule matches only a transcript in which every pattern word occurs
\* as a whole whitespace-delimited word, or one that is equal to the pattern
\* as a whole after normalization; a pattern word that is only part of a
\* longer transcript word does not make the rule match.
C25_Original_MatchOnWholeWords ==
    (match_pc = "done" /\ executed # <<>>) =>
        LET i == executed[1]
        IN  \/ WholeWords(i)
            \/ Normalize(transcript) = Normalize(commands[i].pattern)

\* The same for the add-on's matcher alone.
AddonMatchOnWholeWords == matcher = "addon" => C25_Original_MatchOnWholeWords

----------------------------------------------------------------------------
(* Properties of _execute_actions (checked under ActionSpec).              *)

\* The k-th action of the rule cannot be carried out: no token, no action
\* name, or a name that is not domain.verb.
Faulty(k) ==
    LET config == actions_list(command)[k]
    IN  ~has_token(env) \/ ~config.has_action \/ ~has_dot(config.action)

\* C26: the actions of the matched rule are attempted one at a time in
\* configured order (the k-th call of _execute_action is for the k-th
\* action, and the request is made exactly for the actions that can be
\* carried out); when an action fails, by a missing token, a missing or
\* malformed action name, or a request that fails or raises, the later
\* actions are still attempted: when the call is over every action has been
\* attempted and no exception has left _execute_actions.
C26_EveryActionAttempted ==
    /\ ~escaped
    /\ Len(attempted) <= Len(actions_list(command))
    /\ \A k \in 1..Len(attempted) : attempted[k].posted = ~Faulty(k)
    /\ act_pc = "done" => Len(attempted) = Len(actions_list(command))

\* C26 witness: a rule with several actions whose first action raised (no
\* action name, or the request raised) and whose last action was then
\* requested.
C26_Witness ==
    /\ act_pc = "done"
    /\ Len(attempted) >= 2
    /\ attempted[1].exc \in {"AttributeError", "RequestException"}
    /\ attempted[Len(attempted)].posted

----------------------------------------------------------------------------
(* The shape of the utterances add_frame returns (checked under Spec).     *)

\* The frames k..(k + n - 1) of u are all non-speech.
SilentRun(u, k, n) == \A j \in k..(k + n - 1) : ~final_is_speech(u[j])

\* The number of speech frames among the frames of u.
RECURSIVE SpeechCount(_)
SpeechCount(u) ==
    IF u = <<>> THEN 0
    ELSE (IF final_is_speech(Head(u)) THEN 1 ELSE 0) + SpeechCount(Tail(u))

\* C27: every utterance add_frame returns is made of the frames fed since
\* the segmenter left idle; its first frame is a speech frame (after the
\* energy gate); no run of max_silence_frames consecutive non-speech frames
\* lies inside it before its end; when its last frame is non-speech it was
\* ended by silence and its last max_silence_frames frames are exactly a
\* run of non-speech frames, preceded by a speech frame; when its last frame
\* is a speech frame it was ended by the cap, on the
\* max_recording_frames-th speech frame; and it holds at least one speech
\* frame and max_silence_frames further frames.
C27_UtteranceShape ==
    Returned =>
        LET u == fed
            n == Len(fed)
        IN  /\ complete_audio.val = join(u)
            /\ n >= 1 + max_silence_frames
            /\ final_is_speech(u[1])
            /\ \A k \in 1..(n - max_silence_frames) :
                  ~SilentRun(u, k, max_silence_frames)
            /\ IF final_is_speech(u[n])
               THEN SpeechCount(u) = max_recording_frames
               ELSE /\ SilentRun(u, n - max_silence_frames + 1, max_silence_frames)
                    /\ final_is_speech(u[n - max_silence_frames])
                    /\ SpeechCount(u) < max_recording_frames

\* C27 witness: an utterance ended by silence that holds a non-speech frame
\* between two speech frames.
C27_Witness ==
    /\ Returned
    /\ Len(fed) = 3 + max_silence_frames
    /\ final_is_speech(fed[1])
    /\ ~final_is_speech(fed[2])
    /\ final_is_speech(fed[3])
    /\ ~final_is_speech(fed[Len(fed)])

----------------------------------------------------------------------------
(* Properties of the sessions of the Frame Source (checked under           *)
(* DriverSpec).                                                            *)

\* This step opens the Frame Source and a session begins.
SessionBegins == driver_pc = "loop" /\ driver_pc' = "streaming"

\* C28: when the Frame Source is reopened after a session that ended with an
\* exception, the segmenter holds no frame of the earlier session and is
\* idle, so that the first frame of the new session starts a new utterance
\* and no utterance mixes frames of two sessions.
C28_Original_SegmenterIdleAtReopen ==
    [][(SessionBegins /\ failures > 0) => (buffer = <<>> /\ ~is_speaking)]_vars

\* This step calls av.open: the stream opens or the call fails.
OpenCalled == open_tick' # open_tick

\* C29: every call of av.open but the first comes after the 5 s sleep:
\* between the end of a session, by an exception or by the stream running
\* out of packets, and the next opening the driver has slept
\* BackoffDelay seconds.
C29_Original_BackoffBeforeEveryReopen ==
    [][(OpenCalled /\ open_called) => slept = BackoffDelay]_vars

\* The same for the openings that follow an exception.
BackoffAfterException ==
    [][(OpenCalled /\ failures > 0) => slept = BackoffDelay]_vars

====
